---------------------------- MODULE Spec2Model ----------------------------
(***************************************************************************)
(* A model of LegalParser.py (Causelist -> File No. matcher, v2.2b.a).     *)
(*                                                                         *)
(* A Python str is a sequence of one-character strings; a regular          *)
(* expression is modelled by the matches its backtracking search finds.    *)
(* A position p in 1..Len(s)+1 is the gap in front of s[p].                *)
(***************************************************************************)
EXTENDS Integers, Sequences, FiniteSets, TLC

VARIABLES
    pc,           \* position of the running function
    token,        \* norm_year: the argument
    normed,       \* norm_year: the value returned
    lines,        \* parse_blocks: the argument
    i, j,         \* parse_blocks: the two scan pointers
    cur,          \* parse_blocks: sno, ctype, cno of the open block
    block,        \* parse_blocks: lines of the open block
    title_parts,  \* parse_blocks: title fragments of the open block
    title_src,    \* parse_blocks: how the title was found
    pending,      \* parse_blocks: matches of cw_inline_pat still to be emitted
    rows,         \* parse_blocks: the records emitted so far
    master,       \* load_master: the master rows, normalised
    k,            \* index_master: number of master rows indexed
    by_ct_cno,    \* index_master: (type, no) -> first row
    by_cno,       \* index_master: no -> rows in master order
    row,          \* match_engine: the query row
    matched       \* match_engine: the (fno, verb, check) returned

vars == <<pc, token, normed, lines, i, j, cur, block, title_parts, title_src,
          pending, rows, master, k, by_ct_cno, by_cno, row, matched>>

normVars  == <<token, normed>>
parseVars == <<lines, i, j, cur, block, title_parts, title_src, pending, rows>>
matchVars == <<master, k, by_ct_cno, by_cno, row, matched>>

-----------------------------------------------------------------------------
(* Bounds of the model.                                                    *)

MaxTokLen == 6
MaxLines == 3
MaxMaster == 3

-----------------------------------------------------------------------------
(* Characters and the str methods the program uses.                        *)

LowerCh == <<"a","b","c","d","e","f","g","h","i","j","k","l","m",
             "n","o","p","q","r","s","t","u","v","w","x","y","z">>
UpperCh == <<"A","B","C","D","E","F","G","H","I","J","K","L","M",
             "N","O","P","Q","R","S","T","U","V","W","X","Y","Z">>
LowerSet == {LowerCh[n] : n \in 1..26}
UpperSet == {UpperCh[n] : n \in 1..26}
DigitSet == {"0","1","2","3","4","5","6","7","8","9"}
SpaceSet == {" ", "\t", "\n", "\r"}

UpperOf == [c \in LowerSet |-> UpperCh[CHOOSE n \in 1..26 : LowerCh[n] = c]]

IsDigit(c) == c \in DigitSet
IsSpace(c) == c \in SpaceSet
IsAlpha(c) == c \in LowerSet \/ c \in UpperSet
IsUpperAlpha(c) == c \in UpperSet
\* \w
IsWord(c)  == IsAlpha(c) \/ IsDigit(c) \/ c = "_"

SetMin(S) == CHOOSE x \in S : \A y \in S : x <= y
SetMax(S) == CHOOSE x \in S : \A y \in S : x >= y

\* pandas' missing value (an empty spreadsheet cell), which is not a str
NaN == <<"NaN">>
isna(s) == s = NaN

\* str.upper()
upper(s) == [n \in 1..Len(s) |-> IF s[n] \in LowerSet THEN UpperOf[s[n]] ELSE s[n]]

\* str.strip()
strip(s) ==
    LET ns == {n \in 1..Len(s) : ~IsSpace(s[n])}
    IN  IF ns = {} THEN <<>> ELSE SubSeq(s, SetMin(ns), SetMax(ns))

\* The position after the longest run of characters satisfying P that starts at p.
RunEnd(s, p, P(_)) ==
    LET bad == {n \in p..Len(s) : ~P(s[n])}
    IN  IF bad = {} THEN Len(s) + 1 ELSE SetMin(bad)

\* s has the literal lit at position p
LitAt(s, p, lit) ==
    /\ p + Len(lit) - 1 <= Len(s)
    /\ \A n \in 1..Len(lit) : s[p + n - 1] = lit[n]

\* s has the upper-case literal lit at position p, whatever the case of s (re.I)
LitAtAnyCase(s, p, lit) ==
    /\ p + Len(lit) - 1 <= Len(s)
    /\ \A n \in 1..Len(lit) :
          (IF s[p + n - 1] \in LowerSet THEN UpperOf[s[p + n - 1]] ELSE s[p + n - 1]) = lit[n]

\* \b at position p
WordBoundary(s, p) ==
    LET before == p > 1 /\ p - 1 <= Len(s) /\ IsWord(s[p - 1])
        after  == p >= 1 /\ p <= Len(s) /\ IsWord(s[p])
    IN  before # after

\* str.replace(old, new): every non-overlapping occurrence, left to right
RECURSIVE replaceFrom(_, _, _, _)
replaceFrom(s, p, old, new) ==
    IF p > Len(s) THEN <<>>
    ELSE IF LitAt(s, p, old) THEN new \o replaceFrom(s, p + Len(old), old, new)
    ELSE <<s[p]>> \o replaceFrom(s, p + 1, old, new)

replace(s, old, new) == replaceFrom(s, 1, old, new)

\* re.sub(r"\s+", " ", s)
RECURSIVE collapseFrom(_, _)
collapseFrom(s, p) ==
    IF p > Len(s) THEN <<>>
    ELSE IF IsSpace(s[p]) THEN <<" ">> \o collapseFrom(s, RunEnd(s, p, IsSpace))
    ELSE <<s[p]>> \o collapseFrom(s, p + 1)

collapse_ws(s) == collapseFrom(s, 1)

\* str.split(): the maximal runs of non-whitespace characters
RECURSIVE splitFrom(_, _)
splitFrom(s, p) ==
    IF p > Len(s) THEN <<>>
    ELSE IF IsSpace(s[p]) THEN splitFrom(s, p + 1)
    ELSE LET NotSpace(c) == ~IsSpace(c)
             e == RunEnd(s, p, NotSpace)
         IN  <<SubSeq(s, p, e - 1)>> \o splitFrom(s, e)

split(s) == splitFrom(s, 1)

\* " ".join(parts)
RECURSIVE join(_)
join(parts) ==
    IF parts = <<>> THEN <<>>
    ELSE IF Len(parts) = 1 THEN parts[1]
    ELSE parts[1] \o <<" ">> \o join(Tail(parts))

\* int(num) of a string of decimal digits
DigitVal == [c \in DigitSet |-> CHOOSE n \in 0..9 : <<"0","1","2","3","4","5","6","7","8","9">>[n + 1] = c]
RECURSIVE int(_)
int(num) ==
    IF num = <<>> THEN 0
    ELSE 10 * int(SubSeq(num, 1, Len(num) - 1)) + DigitVal[num[Len(num)]]

\* str(n) of a natural number
RECURSIVE str(_)
str(n) ==
    LET d == <<"0","1","2","3","4","5","6","7","8","9">>[(n % 10) + 1]
    IN  IF n < 10 THEN <<d>> ELSE str(n \div 10) \o <<d>>

\* f"{n:02d}"
fmt02d(n) == IF n < 10 THEN <<"0">> \o str(n) ELSE str(n)

-----------------------------------------------------------------------------
(* SECTION 1: DATA NORMALIZERS                                             *)

\* re.sub(r"[.\s()]", "", s)
strip_type_chars(s) == SelectSeq(s, LAMBDA c : ~(c \in {".", "(", ")"} \/ IsSpace(c)))

norm_case_type(s) ==
    IF isna(s) THEN <<>>
    ELSE LET s1 == strip(upper(s))
             s2 == strip_type_chars(s1)
             s3 == replace(s2, <<"W","P"," ","C">>, <<"W","P","C">>)
             s4 == replace(s3, <<"W","P","(","C",")">>, <<"W","P","C">>)
             s5 == replace(s4, <<"O","W"," ","P">>, <<"O","W","P">>)
         IN  replace(s5, <<"C"," ","P"," ","O","W","P">>, <<"C","P","O","W","P">>)

\* re.match(r"^(\d+)\s*/\s*(\d{2,4})$", t): the groups, or ok = FALSE
case_no_match(t) ==
    LET a == RunEnd(t, 1, IsDigit)
        b == RunEnd(t, a, IsSpace)
        c == RunEnd(t, b + 1, IsSpace)
        d == RunEnd(t, c, IsDigit)
    IN  IF /\ a > 1
           /\ b <= Len(t) /\ t[b] = "/"
           /\ d = Len(t) + 1
           /\ d - c \in 2..4
        THEN [ok |-> TRUE, num |-> SubSeq(t, 1, a - 1), year |-> SubSeq(t, c, d - 1)]
        ELSE [ok |-> FALSE, num |-> <<>>, year |-> <<>>]

\* norm_year without the exception for the year 2000
norm_year_no_2000(tok) ==
    IF isna(tok) THEN <<>>
    ELSE LET t == strip(upper(tok))
             m == case_no_match(t)
         IN  IF ~m.ok THEN t
             ELSE LET num_norm  == fmt02d(int(m.num))
                      year_norm == IF Len(m.year) = 4 THEN SubSeq(m.year, 3, 4)
                                   ELSE m.year
                  IN  num_norm \o <<"/">> \o year_norm

\* norm_year matching the stripped, uppercased token but returning the argument
norm_year_raw(tok) ==
    IF isna(tok) THEN <<>>
    ELSE LET t == strip(upper(tok))
             m == case_no_match(t)
         IN  IF ~m.ok THEN tok
             ELSE LET num_norm  == fmt02d(int(m.num))
                      year_norm == IF Len(m.year) = 4 /\ m.year # <<"2","0","0","0">>
                                   THEN SubSeq(m.year, 3, 4)
                                   ELSE m.year
                  IN  num_norm \o <<"/">> \o year_norm

norm_year(tok) ==
    IF isna(tok) THEN <<>>
    ELSE LET t == strip(upper(tok))
             m == case_no_match(t)
         IN  IF ~m.ok THEN t
             ELSE LET num_norm  == fmt02d(int(m.num))
                      year_norm == IF Len(m.year) = 4 /\ m.year # <<"2","0","0","0">>
                                   THEN SubSeq(m.year, 3, 4)
                                   ELSE m.year
                  IN  num_norm \o <<"/">> \o year_norm

\* re.sub(r"\bAND\s+OTHERS?\b", " ", t): the position after a match at p, or 0
and_others_end(t, p) ==
    LET w == RunEnd(t, p + 3, IsSpace)
    IN  IF ~(WordBoundary(t, p) /\ LitAt(t, p, <<"A","N","D">>) /\ w > p + 3 /\ LitAt(t, w, <<"O","T","H","E","R">>))
        THEN 0
        ELSE IF LitAt(t, w + 5, <<"S">>) /\ WordBoundary(t, w + 6) THEN w + 6
        ELSE IF WordBoundary(t, w + 5) THEN w + 5
        ELSE 0

\* re.sub(r"\bAND\s+ANR\.?\b", " ", t): the position after a match at p, or 0
and_anr_end(t, p) ==
    LET w == RunEnd(t, p + 3, IsSpace)
    IN  IF ~(WordBoundary(t, p) /\ LitAt(t, p, <<"A","N","D">>) /\ w > p + 3 /\ LitAt(t, w, <<"A","N","R">>))
        THEN 0
        ELSE IF LitAt(t, w + 3, <<".">>) /\ WordBoundary(t, w + 4) THEN w + 4
        ELSE IF WordBoundary(t, w + 3) THEN w + 3
        ELSE 0

RECURSIVE sub_and_others(_, _)
sub_and_others(t, p) ==
    IF p > Len(t) THEN <<>>
    ELSE IF and_others_end(t, p) > 0 THEN <<" ">> \o sub_and_others(t, and_others_end(t, p))
    ELSE <<t[p]>> \o sub_and_others(t, p + 1)

RECURSIVE sub_and_anr(_, _)
sub_and_anr(t, p) ==
    IF p > Len(t) THEN <<>>
    ELSE IF and_anr_end(t, p) > 0 THEN <<" ">> \o sub_and_anr(t, and_anr_end(t, p))
    ELSE <<t[p]>> \o sub_and_anr(t, p + 1)

\* re.sub(r"[^\w\s]", " ", t)
sub_punct(t) == [n \in 1..Len(t) |-> IF IsWord(t[n]) \/ IsSpace(t[n]) THEN t[n] ELSE " "]

clean_title_for_match(t) ==
    IF isna(t) THEN <<>>
    ELSE LET t1 == upper(t)
             t2 == sub_and_others(t1, 1)
             t3 == sub_and_anr(t2, 1)
             t4 == sub_punct(t3)
             t5 == collapse_ws(t4)
         IN  strip(t5)

\* some literal of lits is at position p of u and a word ends after it
WordAt(u, p, lits) ==
    \E lit \in lits : LitAt(u, p, lit) /\ WordBoundary(u, p + Len(lit))

PartyKeywords ==
    { <<"S","T","A","T","E">>, <<"U","N","I","O","N">>, <<"C","E","N","T","R","A","L">>, <<"D","I","S","T","R","I","C","T">>, <<"T","E","H","S","I","L","D","A","R">>, <<"T","A","L","U","K","A">>,
      <<"S","D","M">>, <<"D","C">>, <<"D","M">>, <<"R","E","V","E","N","U","E">>, <<"B","A","N","K">>, <<"C","O","R","P","O","R","A","T","I","O","N">>,
      <<"D","E","P","A","R","T","M","E","N","T">>, <<"C","O","M","M","I","S","S","I","O","N","E","R">>, <<"A","U","T","H","O","R","I","T","Y">> }

\* re.findall(r"\b[A-Z][A-Z]+\b", u): where the matches start
CapsWords(u) ==
    {p \in 1..Len(u) :
        /\ WordBoundary(u, p)
        /\ RunEnd(u, p, IsUpperAlpha) - p >= 2
        /\ WordBoundary(u, RunEnd(u, p, IsUpperAlpha))}

is_party_like(line) ==
    IF line = <<>> THEN FALSE
    ELSE LET u == upper(line)
         IN  \/ \E p \in 1..Len(u) :
                    WordBoundary(u, p) /\ WordAt(u, p, { <<"V","S">>, <<" ","V"," ">>, <<"V","E","R","S","U","S">> })
             \/ \E p \in 1..Len(u) : WordBoundary(u, p) /\ WordAt(u, p, PartyKeywords)
             \/ Cardinality(CapsWords(u)) >= 2

\* where FOR\s+(PET|RES|APPLICANT|RESPONDENT), CAVEAT, AAG\b, SR\.?\s*ADV or
\* ADV\. can end when tried at position p of u
counsel_ends(u, p) ==
    LET w  == RunEnd(u, p + 3, IsSpace)
        d  == IF LitAt(u, p + 2, <<".">>) THEN {p + 2, p + 3} ELSE {p + 2}
    IN  {w + Len(lit) : lit \in {x \in { <<"P","E","T">>, <<"R","E","S">>, <<"A","P","P","L","I","C","A","N","T">>, <<"R","E","S","P","O","N","D","E","N","T">> } :
                                    LitAt(u, p, <<"F","O","R">>) /\ w > p + 3 /\ LitAt(u, w, x)}}
        \cup (IF LitAt(u, p, <<"C","A","V","E","A","T">>) THEN {p + 6} ELSE {})
        \cup (IF LitAt(u, p, <<"A","A","G">>) /\ WordBoundary(u, p + 3) THEN {p + 3} ELSE {})
        \cup {RunEnd(u, q, IsSpace) + 3 : q \in {x \in d :
                  LitAt(u, p, <<"S","R">>) /\ LitAt(u, RunEnd(u, x, IsSpace), <<"A","D","V">>)}}
        \cup (IF LitAt(u, p, <<"A","D","V",".">>) THEN {p + 4} ELSE {})

FilingPrefixes ==
    { <<"C","M">>, <<"I","A">>, <<"C","R","M">>, <<"C","R","L","M">>, <<"C","R","R">>, <<"C","R","M","C">>, <<"C","M","M">>, <<"C","A","V","T">>, <<"C","A","V","E","A","T">> }

cleanse_noise(line) ==
    LET u == upper(line)
    IN  \/ \E p \in 1..Len(u) :
               WordBoundary(u, p) /\ \E e \in counsel_ends(u, p) : WordBoundary(u, e)
        \/ WordAt(u, RunEnd(u, 1, IsSpace), FilingPrefixes)

-----------------------------------------------------------------------------
(* SECTION 3: PDF PARSER -- the two patterns of parse_blocks               *)

\* [A-Za-z()\.]
IsTypeCh(c)  == IsAlpha(c) \/ c \in {"(", ")", "."}
\* [A-Za-z0-9\-() ]
IsCwNoCh(c)  == IsAlpha(c) \/ IsDigit(c) \/ c \in {"-", "(", ")", " "}
\* [A-Za-z0-9\-()/ ]
IsNoCh(c)    == IsCwNoCh(c) \/ c = "/"
NotNewline(c) == c # "\n"

\* /\d{2,4} at position q of s
SlashYearAt(s, q) ==
    /\ q + 2 <= Len(s)
    /\ s[q] = "/" /\ IsDigit(s[q + 1]) /\ IsDigit(s[q + 2])

\* the position after \d{2,4} taken greedily from position p
YearEnd(s, p) == IF RunEnd(s, p, IsDigit) - p > 4 THEN p + 4 ELSE RunEnd(s, p, IsDigit)

NoMatch == [ok |-> FALSE]

\* start_pat.match(line): the four groups.  After the serial number and the
\* case type, \s+ and [A-Za-z0-9\-()/ ]+ are greedy: the search keeps the longest
\* whitespace (g), then the last "/" of the run that two digits follow (q).
start_pat(line) ==
    LET p0 == RunEnd(line, 1, IsSpace)
        p1 == RunEnd(line, p0, IsDigit)
        p2 == RunEnd(line, p1, IsSpace)
        p3 == RunEnd(line, p2, IsTypeCh)
        p4 == RunEnd(line, p3, IsSpace)
        Slashes(g) == {q \in (g + 1)..(RunEnd(line, g, IsNoCh) - 1) : SlashYearAt(line, q)}
        gs == {g \in (p3 + 1)..p4 : Slashes(g) # {}}
    IN  IF ~(p1 > p0 /\ p2 > p1 /\ p3 > p2 /\ p4 > p3 /\ gs # {}) THEN NoMatch
        ELSE LET g == SetMax(gs)
                 q == SetMax(Slashes(g))
                 e == YearEnd(line, q + 1)
             IN  [ok        |-> TRUE,
                  sno       |-> SubSeq(line, p0, p1 - 1),
                  ctype_raw |-> SubSeq(line, p2, p3 - 1),
                  cno_raw   |-> SubSeq(line, g, e - 1),
                  rest      |-> SubSeq(line, RunEnd(line, e, IsSpace), Len(line))]

\* [A-Za-z0-9\-() ]+/\d{2,4} at position p of text
CwNoAt(text, p) ==
    /\ RunEnd(text, p, IsCwNoCh) > p
    /\ SlashYearAt(text, RunEnd(text, p, IsCwNoCh))

\* cw_inline_pat tried at position p of text: the groups and the span, in the
\* order the backtracking search tries them: the longest \s* (s0); with a case
\* type before the longest \s+ (s1), then without one.
cw_inline_at(text, p) ==
    LET m  == IF ~WordBoundary(text, p) THEN 0
              ELSE IF LitAtAnyCase(text, p, <<"C","/","W">>) /\ WordBoundary(text, p + 3) THEN p + 3
              ELSE IF LitAtAnyCase(text, p, <<"W","I","T","H">>) /\ WordBoundary(text, p + 4) THEN p + 4
              ELSE 0
        TypeEnd(s0)  == RunEnd(text, s0, IsTypeCh)
        WithType(s0) == IF TypeEnd(s0) = s0 THEN {}
                        ELSE {s1 \in (TypeEnd(s0) + 1)..RunEnd(text, TypeEnd(s0), IsSpace) :
                                 CwNoAt(text, s1)}
        s0s == {s0 \in m..RunEnd(text, m, IsSpace) : WithType(s0) # {} \/ CwNoAt(text, s0)}
    IN  IF m = 0 \/ s0s = {} THEN NoMatch
        ELSE LET s0    == SetMax(s0s)
                 typed == WithType(s0) # {}
                 s1    == IF typed THEN SetMax(WithType(s0)) ELSE s0
                 e     == YearEnd(text, RunEnd(text, s1, IsCwNoCh) + 1)
                 ts    == {t \in (e + 1)..RunEnd(text, e, IsSpace) :
                              t <= Len(text) /\ text[t] # "\n"}
                 t0    == IF ts = {} THEN 0 ELSE SetMax(ts)
                 tend  == IF ts = {} THEN e ELSE RunEnd(text, t0, NotNewline)
             IN  [ok    |-> TRUE,
                  start |-> p,
                  end   |-> tend,
                  typed |-> typed,
                  ctype |-> IF typed THEN SubSeq(text, s0, TypeEnd(s0) - 1) ELSE <<>>,
                  cno   |-> SubSeq(text, s1, e - 1),
                  title |-> IF ts = {} THEN <<>> ELSE SubSeq(text, t0, tend - 1)]

\* cw_inline_pat.finditer(text) from position p on: the matches, left to right,
\* each search resuming where the last match ended
RECURSIVE cw_finditer(_, _)
cw_finditer(text, p) ==
    LET hits == {q \in p..Len(text) : cw_inline_at(text, q).ok}
    IN  IF hits = {} THEN <<>>
        ELSE LET mm == cw_inline_at(text, SetMin(hits))
             IN  <<mm>> \o cw_finditer(text, mm.end)

\* "\n".join(lines)
RECURSIVE join_lines(_)
join_lines(ls) ==
    IF ls = <<>> THEN <<>>
    ELSE IF Len(ls) = 1 THEN ls[1]
    ELSE ls[1] \o <<"\n">> \o join_lines(Tail(ls))

-----------------------------------------------------------------------------
(* norm_year on its own: the argument is any short string over             *)
(* TokenAlphabet, one of the documented examples, or a missing value.      *)

TokenAlphabet == {"0", "2", "/", " ", "a"}

ExampleTokens == { <<"1","/","5">>, <<"7","/","2","0","2","3">>, <<"5","/","2","0","0","0">>, <<"A","B","C">>, <<"1","/","2","2">>, <<"1","/","2","0","2","3">>,
                   <<"1","2"," ","/"," ","1","2","3">>, <<" ","w","p"," ","7","/","2","0","2","3"," ">> }

Tokens == (UNION {[1..n -> TokenAlphabet] : n \in 0..MaxTokLen})
              \cup ExampleTokens \cup {NaN}

NoRow == [fno |-> <<>>, verb |-> <<>>, chk |-> <<>>]
NoCur == [sno |-> <<>>, ctype |-> <<>>, cno |-> <<>>]

ParseIdle ==
    /\ lines = <<>> /\ i = 0 /\ j = 0 /\ cur = NoCur /\ block = <<>>
    /\ title_parts = <<>> /\ title_src = "" /\ pending = <<>> /\ rows = <<>>

MatchIdle ==
    /\ master = <<>> /\ k = 0 /\ by_ct_cno = <<>> /\ by_cno = <<>>
    /\ row = <<>> /\ matched = NoRow

NormIdle == token = <<>> /\ normed = <<>>

InitNorm ==
    /\ pc = "norm_year"
    /\ token \in Tokens
    /\ normed = <<>>
    /\ ParseIdle
    /\ MatchIdle

NormYear ==
    /\ pc = "norm_year"
    /\ normed' = norm_year(token)
    /\ pc' = "norm_year_returned"
    /\ UNCHANGED <<token, parseVars, matchVars>>

NextNorm == NormYear

SpecNorm == InitNorm /\ [][NextNorm]_vars

-----------------------------------------------------------------------------
(* parse_blocks: one step per test of the outer loop, of the inner loop    *)
(* and of the loop over cw_inline_pat.finditer.  The argument is any short *)
(* list of the lines of LinePool, which read_pdf_lines leaves non-blank.   *)

LinePool ==
    { <<"1","0","1"," ","W","P","C"," ","1","/","2","0","2","3"," ","R","a","m"," ","v","s"," ","S","t","a","t","e">>,
      <<"A","d","v","."," ","X","Y","Z"," ","f","o","r"," ","p","e","t","i","t","i","o","n","e","r">>,
      <<"1","0","2"," ","O","W","P"," ","2","/","2","0","2","3"," ","F","o","o"," ","v","s"," ","B","a","r">>,
      <<"1","0","3"," ","W","P","(","C",")"," ","3","/","2","0","2","3">>,
      <<"S","h","a","m"," ","L","a","l">>,
      <<"c","/","w"," ","W","P","C"," ","5","/","2","0","2","3"," ","S","h","a","m"," ","v","s"," ","S","t","a","t","e">>,
      <<"w","i","t","h"," ","6","/","2","0","2","3">>,
      <<"A","d","v",".","K","h","a","n"," ","f","o","r"," ","r","e","s","p","o","n","d","e","n","t">> }

\* start_pat.match on each line of LinePool, computed once
StartTable == [ln \in LinePool |-> start_pat(ln)]
starts_block(ln) == StartTable[ln].ok

\* the test of the inner loop's if, letting a third fragment in
takes_title_3(ln, parts) ==
    ~cleanse_noise(ln) /\ is_party_like(ln) /\ Len(parts) < 3

\* the test of the inner loop's if: the line goes into the title
takes_title(ln, parts) ==
    ~cleanse_noise(ln) /\ is_party_like(ln) /\ Len(parts) < 2

\* the record of a block's own case
primary_row(c, parts, src) ==
    [sno   |-> c.sno,
     ctype |-> c.ctype,
     cno   |-> c.cno,
     title |-> collapse_ws(strip(join(parts))),
     src   |-> IF src # "" THEN src ELSE "Inline only"]

\* the record of a case clubbed with the block's own, from a match mm
clubbed_row(c, mm) ==
    [sno   |-> c.sno,
     ctype |-> norm_case_type(IF mm.typed THEN mm.ctype ELSE c.ctype),
     cno   |-> norm_year(mm.cno),
     title |-> strip(mm.title),
     src   |-> "Clubbed inline"]

\* a record put in front of those already emitted
prepend_row(rs, r) == <<r>> \o rs

\* rows.append(r)
append_row(rs, r) == Append(rs, r)

InitParse ==
    /\ pc = "read"
    /\ ParseIdle
    /\ NormIdle
    /\ MatchIdle

\* run: lines = read_pdf_lines(query_pdf), then parse_blocks(lines) starts
ReadPdfLines ==
    /\ pc = "read"
    /\ lines' \in UNION {[1..n -> LinePool] : n \in 0..MaxLines}
    /\ i' = 1
    /\ rows' = <<>>
    /\ pc' = "scan"
    /\ UNCHANGED <<j, cur, block, title_parts, title_src, pending, normVars, matchVars>>

\* lines[i] does not start a block
SkipLine ==
    /\ pc = "scan" /\ i <= Len(lines)
    /\ ~starts_block(lines[i])
    /\ i' = i + 1
    /\ UNCHANGED <<pc, lines, j, cur, block, title_parts, title_src, pending, rows,
                   normVars, matchVars>>

\* lines[i] starts a block
OpenBlock ==
    /\ pc = "scan" /\ i <= Len(lines)
    /\ starts_block(lines[i])
    /\ LET m == StartTable[lines[i]]
           header_tail == strip(m.rest)
       IN  /\ cur' = [sno   |-> m.sno,
                      ctype |-> norm_case_type(m.ctype_raw),
                      cno   |-> norm_year(m.cno_raw)]
           /\ title_parts' = IF header_tail # <<>> THEN <<header_tail>> ELSE <<>>
           /\ title_src' = IF header_tail # <<>> THEN "Inline title" ELSE ""
    /\ j' = i + 1
    /\ block' = <<lines[i]>>
    /\ pc' = "collect"
    /\ UNCHANGED <<lines, i, pending, rows, normVars, matchVars>>

\* lines[j] belongs to the open block
CollectLine ==
    /\ pc = "collect" /\ j <= Len(lines)
    /\ ~starts_block(lines[j])
    /\ block' = Append(block, lines[j])
    /\ IF takes_title(lines[j], title_parts)
       THEN /\ title_parts' = Append(title_parts, strip(lines[j]))
            /\ title_src' = IF title_src # "" THEN title_src ELSE "Next-line party"
       ELSE UNCHANGED <<title_parts, title_src>>
    /\ j' = j + 1
    /\ UNCHANGED <<pc, lines, i, cur, pending, rows, normVars, matchVars>>

\* the block ends: its own record is appended, and its text searched
CloseBlock ==
    /\ pc = "collect"
    /\ IF j > Len(lines) THEN TRUE ELSE starts_block(lines[j])
    /\ i' = j
    /\ rows' = append_row(rows, primary_row(cur, title_parts, title_src))
    /\ pending' = cw_finditer(join_lines(block), 1)
    /\ pc' = "clubbed"
    /\ UNCHANGED <<lines, j, cur, block, title_parts, title_src, normVars, matchVars>>

\* the next match of cw_inline_pat in the block's text
EmitClubbed ==
    /\ pc = "clubbed" /\ pending # <<>>
    /\ rows' = append_row(rows, clubbed_row(cur, Head(pending)))
    /\ pending' = Tail(pending)
    /\ UNCHANGED <<pc, lines, i, j, cur, block, title_parts, title_src, normVars, matchVars>>

\* no match is left: back to the outer loop
EndBlock ==
    /\ pc = "clubbed" /\ pending = <<>>
    /\ pc' = "scan"
    /\ UNCHANGED <<lines, i, j, cur, block, title_parts, title_src, pending, rows,
                   normVars, matchVars>>

\* the outer loop ends: return pd.DataFrame(rows)
ReturnRows ==
    /\ pc = "scan" /\ i > Len(lines)
    /\ pc' = "parsed"
    /\ UNCHANGED <<lines, i, j, cur, block, title_parts, title_src, pending, rows,
                   normVars, matchVars>>

NextParse ==
    \/ ReadPdfLines
    \/ SkipLine
    \/ OpenBlock
    \/ CollectLine
    \/ CloseBlock
    \/ EmitClubbed
    \/ EndBlock
    \/ ReturnRows

SpecParse == InitParse /\ [][NextParse]_vars

-----------------------------------------------------------------------------
(* SECTION 2 and 4: load_master, index_master and match_engine, as run     *)
(* calls them.  A dict is a function on its set of keys.  The master is    *)
(* any short list of the rows of MasterPool; its File No. column is F1,    *)
(* F2, ... down the sheet, so that equal rows can be told apart.           *)

\* Case Type, Case No., Title of a spreadsheet row
MasterPool ==
    { << <<"W","P","(","C",")">>, <<"1","/","2","0","2","3">>, <<"R","a","m"," ","v","s"," ","S","t","a","t","e">> >>,
      << <<"O","W","P">>,   <<"1","/","2","0","2","3">>, <<"S","t","a","t","e"," ","v","s"," ","R","a","m">> >>,
      << <<"W","P","(","C",")">>, <<"1","/","2","0","2","3">>, <<"S","h","a","m"," ","L","a","l"," ","a","n","d"," ","o","t","h","e","r","s">> >>,
      << <<"O","W","P">>,   <<"2","/","2","0","2","3">>, <<"R","a","m"," ","L","a","l">> >>,
      << <<"W","P","(","C",")">>, NaN,        <<"R","a","m"," ","v","s"," ","S","t","a","t","e">> >>,
      << <<"O","W","P">>,   <<"0","1","/","2","3">>,  <<"R","a","m"," ","L","a","l">> >> }

\* the rows parse_blocks hands to match_engine
QueryTypes  == { <<"W","P","C">>, <<"O","W","P">>, <<"C","R","M">> }
QueryNos    == { <<"0","1","/","2","3">>, <<"0","2","/","2","3">>, <<"0","3","/","2","3">> }
QueryTitles == { <<"R","a","m"," ","v","s"," ","S","t","a","t","e">>, <<>>, <<"L","a","l"," ","a","n","d"," ","o","t","h","e","r","s">>, <<"F","o","o">>, <<"a","n","d"," ","o","t","h","e","r","s">> }

\* the three columns load_master adds to a row
master_row(raw, n) ==
    [ctype          |-> raw[1],
     cno            |-> raw[2],
     title          |-> raw[3],
     fno            |-> <<"F">> \o str(n),
     case_type_norm |-> norm_case_type(raw[1]),
     case_no_norm   |-> norm_year(raw[2]),
     title_clean    |-> clean_title_for_match(raw[3])]

\* d with key bound to r
Bind(d, key, r) == [x \in DOMAIN d \cup {key} |-> IF x = key THEN r ELSE d[x]]

\* by_ct_cno[key] = r whether or not the key is there
put_last(d, key, r) == Bind(d, key, r)

\* if key not in by_ct_cno: by_ct_cno[key] = r
put_first(d, key, r) == IF key \in DOMAIN d THEN d ELSE Bind(d, key, r)

\* by_cno.setdefault(no, []).append(r)
add_cand(d, no, r) == Bind(d, no, IF no \in DOMAIN d THEN Append(d[no], r) ELSE <<r>>)

\* a value as an f-string writes it
fstr(x) == IF isna(x) THEN <<"n","a","n">> ELSE x

\* what match_engine returns for a master row rec
hit(rec, chk) ==
    [fno  |-> rec.fno,
     verb |-> rec.fno \o <<" ">> \o fstr(rec.ctype) \o <<" ">> \o fstr(rec.cno)
                  \o <<" ">> \o fstr(rec.title),
     chk  |-> chk]
miss(chk) == [fno |-> <<>>, verb |-> <<>>, chk |-> chk]

ToSet(seq) == {seq[n] : n \in 1..Len(seq)}

\* len(set(tq_list) & set(cand_tokens))
overlap(tq_list, cand_tokens) == Cardinality(ToSet(tq_list) \cap ToSet(cand_tokens))

\* the first-token test, made on the candidate's last token
last_token_hit(cand_tokens, first_token) ==
    cand_tokens # <<>> /\ first_token # <<>> /\ cand_tokens[Len(cand_tokens)] = first_token

\* if cand_tokens and first_token and cand_tokens[0] == first_token
first_token_hit(cand_tokens, first_token) ==
    cand_tokens # <<>> /\ first_token # <<>> /\ cand_tokens[1] = first_token

\* a score that replaces the best on a tie
beats_or_ties(score, bestscore) == score >= bestscore

\* if score > bestscore
beats(score, bestscore) == score > bestscore

\* the fuzzy tiers tried for an empty title too
fuzzy_guard_any_title(cands, title) == cands # <<>>

\* if cands and title
fuzzy_guard(cands, title) == cands # <<>> /\ title # <<>>

\* the loop over cands from the n-th on, with the best so far (0: none)
RECURSIVE scan_cands(_, _, _, _, _, _)
scan_cands(cands, n, tq_list, first_token, best, bestscore) ==
    IF n > Len(cands)
    THEN IF best # 0 /\ bestscore >= 1
         THEN hit(cands[best], "Cross-type title overlap")
         ELSE miss("No overlap (type mismatch)")
    ELSE LET cand_tokens == split(cands[n].title_clean)
             score == overlap(tq_list, cand_tokens)
         IN  IF first_token_hit(cand_tokens, first_token)
             THEN hit(cands[n], "Cross-type first-token match")
             ELSE IF beats(score, bestscore)
             THEN scan_cands(cands, n + 1, tq_list, first_token, n, score)
             ELSE scan_cands(cands, n + 1, tq_list, first_token, best, bestscore)

match_engine(rw, d1, d2) ==
    IF <<rw.ctype, rw.cno>> \in DOMAIN d1
    THEN hit(d1[<<rw.ctype, rw.cno>>], "Exact (type+no)")
    ELSE LET cands == IF rw.cno \in DOMAIN d2 THEN d2[rw.cno] ELSE <<>>
         IN  IF fuzzy_guard(cands, rw.title)
             THEN LET tq_list == split(clean_title_for_match(rw.title))
                      first_token == IF tq_list # <<>> THEN tq_list[1] ELSE <<>>
                  IN  scan_cands(cands, 1, tq_list, first_token, 0, -1)
             ELSE miss("Not found")

InitMatch ==
    /\ pc = "load"
    /\ MatchIdle
    /\ NormIdle
    /\ ParseIdle

\* run: master = load_master(master_path), then index_master(master) starts
LoadMaster ==
    /\ pc = "load"
    /\ \E raw \in UNION {[1..n -> MasterPool] : n \in 0..MaxMaster} :
          master' = [n \in 1..Len(raw) |-> master_row(raw[n], n)]
    /\ k' = 0
    /\ by_ct_cno' = <<>>
    /\ by_cno' = <<>>
    /\ pc' = "index"
    /\ UNCHANGED <<row, matched, normVars, parseVars>>

\* index_master: one turn of the loop over master.iterrows()
IndexRow ==
    /\ pc = "index" /\ k < Len(master)
    /\ LET r == master[k + 1]
       IN  /\ by_ct_cno' = put_first(by_ct_cno, <<r.case_type_norm, r.case_no_norm>>, r)
           /\ by_cno' = IF r.case_no_norm # <<>>
                        THEN add_cand(by_cno, r.case_no_norm, r)
                        ELSE by_cno
    /\ k' = k + 1
    /\ UNCHANGED <<pc, master, row, matched, normVars, parseVars>>

\* index_master returns
IndexDone ==
    /\ pc = "index" /\ k = Len(master)
    /\ pc' = "match"
    /\ UNCHANGED <<master, k, by_ct_cno, by_cno, row, matched, normVars, parseVars>>

\* run: one turn of the loop over df.iterrows(), for any parsed row
MatchRow ==
    /\ pc = "match"
    /\ \E ct \in QueryTypes, no \in QueryNos, t \in QueryTitles :
          /\ row' = [ctype |-> ct, cno |-> no, title |-> t]
          /\ matched' = match_engine(row', by_ct_cno, by_cno)
    /\ pc' = "matched"
    /\ UNCHANGED <<master, k, by_ct_cno, by_cno, normVars, parseVars>>

\* run: the result is appended to out_rows, and the loop goes on
NextRow ==
    /\ pc = "matched"
    /\ row' = <<>>
    /\ matched' = NoRow
    /\ pc' = "match"
    /\ UNCHANGED <<master, k, by_ct_cno, by_cno, normVars, parseVars>>

NextMatch ==
    \/ LoadMaster
    \/ IndexRow
    \/ IndexDone
    \/ MatchRow
    \/ NextRow

SpecMatch == InitMatch /\ [][NextMatch]_vars

-----------------------------------------------------------------------------
(* Claims about norm_year.                                                 *)

AllDigits(s) == \A n \in 1..Len(s) : IsDigit(s[n])

\* s is <digits>/<digits>, split at its only "/"
SlashAt(s) == CHOOSE n \in 1..Len(s) : s[n] = "/"
IsNumSlashYear(s) ==
    /\ Cardinality({n \in 1..Len(s) : s[n] = "/"}) = 1
    /\ SlashAt(s) > 1 /\ SlashAt(s) < Len(s)
    /\ AllDigits(SubSeq(s, 1, SlashAt(s) - 1))
    /\ AllDigits(SubSeq(s, SlashAt(s) + 1, Len(s)))
NumOf(s)  == SubSeq(s, 1, SlashAt(s) - 1)
YearOf(s) == SubSeq(s, SlashAt(s) + 1, Len(s))

\* the number of s is that of t, written with at least two digits and no more
\* zeros in front than that takes
PaddedNum(s, t) ==
    /\ int(NumOf(s)) = int(NumOf(t))
    /\ Len(NumOf(s)) >= 2
    /\ Len(NumOf(s)) > 2 => NumOf(s)[1] # "0"

\* s is <digits> <spaces> / <spaces> <2 to 4 digits>
IsCaseNoShape(s) ==
    \E a \in 2..Len(s), b \in 2..Len(s) :
        /\ a <= b /\ s[b] = "/"
        /\ AllDigits(SubSeq(s, 1, a - 1))
        /\ \A n \in a..(b - 1) : IsSpace(s[n])
        /\ \E c \in (b + 1)..Len(s) :
              /\ \A n \in (b + 1)..(c - 1) : IsSpace(s[n])
              /\ AllDigits(SubSeq(s, c, Len(s)))
              /\ Len(s) - c + 1 \in 2..4

NormReturned == pc = "norm_year_returned" /\ ~isna(token)

\* C4, as stated: "1/5" -> "01/05", "7/2023" -> "07/23", "5/2000" -> "05/2000",
\* "ABC" -> "ABC"; every token <digits>/<year digits> comes back with the number
\* padded to at least two digits and the year cut to two digits, the year 2000
\* alone being kept.
C4_AsStated ==
    NormReturned =>
        /\ token = <<"1","/","5">>    => normed = <<"0","1","/","0","5">>
        /\ token = <<"7","/","2","0","2","3">> => normed = <<"0","7","/","2","3">>
        /\ token = <<"5","/","2","0","0","0">> => normed = <<"0","5","/","2","0","0","0">>
        /\ token = <<"A","B","C">>    => normed = <<"A","B","C">>
        /\ IsNumSlashYear(token) =>
              /\ IsNumSlashYear(normed)
              /\ PaddedNum(normed, token)
              /\ \/ Len(YearOf(normed)) = 2
                 \/ YearOf(token) = <<"2","0","0","0">> /\ YearOf(normed) = <<"2","0","0","0">>

\* C4, amended: "7/2023" -> "07/23", "5/2000" -> "05/2000", "ABC" -> "ABC", and
\* "1/5" -> "1/5" (a one-digit year is not a year); every token
\* <digits>/<2 to 4 digits> comes back with the number padded to at least two
\* digits and the year cut to its last two digits when it has four digits and is
\* not 2000; a year of two or three digits, and 2000, are kept as given.
C4_NormYearExamples ==
    NormReturned =>
        /\ token = <<"1","/","5">>    => normed = <<"1","/","5">>
        /\ token = <<"7","/","2","0","2","3">> => normed = <<"0","7","/","2","3">>
        /\ token = <<"5","/","2","0","0","0">> => normed = <<"0","5","/","2","0","0","0">>
        /\ token = <<"A","B","C">>    => normed = <<"A","B","C">>
        /\ (IsNumSlashYear(token) /\ Len(YearOf(token)) \in 2..4) =>
              /\ IsNumSlashYear(normed)
              /\ PaddedNum(normed, token)
              /\ YearOf(normed) =
                    IF Len(YearOf(token)) = 4 /\ YearOf(token) # <<"2","0","0","0">>
                    THEN SubSeq(YearOf(token), 3, 4)
                    ELSE YearOf(token)

C4_Witness ==
    /\ pc = "norm_year_returned"
    /\ token = <<"2","/","2","0","2","0">>
    /\ normed = <<"0","2","/","2","0">>

-----------------------------------------------------------------------------
(* Claims about parse_blocks.                                              *)

\* the lines that start a block, and where a block that starts at n ends
Starts(ls) == {n \in 1..Len(ls) : starts_block(ls[n])}
BlockEnd(ls, n) == SetMin({m \in Starts(ls) : m > n} \cup {Len(ls) + 1})
BlockText(ls, n) == join_lines(SubSeq(ls, n, BlockEnd(ls, n) - 1))

\* the elements of a finite set of numbers, in increasing order
RECURSIVE Sorted(_)
Sorted(S) == IF S = {} THEN <<>> ELSE <<SetMin(S)>> \o Sorted(S \ {SetMin(S)})

\* the concatenation of a sequence of sequences
RECURSIVE Concat(_)
Concat(ss) == IF ss = <<>> THEN <<>> ELSE Head(ss) \o Concat(Tail(ss))

IsPrefix(s, t) == Len(s) <= Len(t) /\ s = SubSeq(t, 1, Len(s))

\* where cw_inline_pat matches in a text, and the matches a search from the left
\* that never looks inside a match it has found keeps
Occurrences(text) == {q \in 1..Len(text) : cw_inline_at(text, q).ok}
Found(text) ==
    LET occ  == Occurrences(text)
        ends == [q \in occ |-> cw_inline_at(text, q).end]
    IN  CHOOSE S \in SUBSET occ :
            \A q \in occ : q \in S <=> ~(\E q0 \in S : q0 < q /\ q < ends[q0])

IsClubbed(r) == r.src = "Clubbed inline"

\* what identifies a record: serial number, type, number and whether clubbed
Ident(r) == <<r.sno, r.ctype, r.cno, IsClubbed(r)>>

\* the records of the block that starts at line n: its own, then one for each
\* match found in its text, from left to right
BlockIdents(ls, n) ==
    LET m    == StartTable[ls[n]]
        own  == <<m.sno, norm_case_type(m.ctype_raw), norm_year(m.cno_raw), FALSE>>
        text == BlockText(ls, n)
        f    == Sorted(Found(text))
    IN  <<own>> \o
        [x \in 1..Len(f) |->
            LET mm == cw_inline_at(text, f[x])
            IN  <<m.sno,
                  IF mm.typed THEN norm_case_type(mm.ctype) ELSE own[2],
                  norm_year(mm.cno),
                  TRUE>>]

ExpectedIdents(ls) ==
    LET st == Sorted(Starts(ls))
    IN  Concat([x \in 1..Len(st) |-> BlockIdents(ls, st[x])])

Idents(rs) == [x \in 1..Len(rs) |-> Ident(rs[x])]

\* what is left to do: lines to read, then the stage within a block, then
\* matches to emit; compared in this order
Rank ==
    CASE pc = "read"    -> <<MaxLines + 1, 0, 0>>
      [] pc = "scan"    -> <<Len(lines) + 1 - i, 0, 0>>
      [] pc = "collect" -> <<Len(lines) + 1 - j, 2, 0>>
      [] pc = "clubbed" -> <<Len(lines) + 1 - i, 1, Len(pending)>>
      [] OTHER          -> <<0, -1, 0>>
RankLess(a, b) ==
    \/ a[1] < b[1]
    \/ a[1] = b[1] /\ a[2] < b[2]
    \/ a[1] = b[1] /\ a[2] = b[2] /\ a[3] < b[3]

\* some loop test of parse_blocks has an outcome to follow
CanStepParse ==
    \/ pc = "read"
    \/ pc = "scan" /\ (i > Len(lines) \/ starts_block(lines[i]) \/ ~starts_block(lines[i]))
    \/ pc = "collect" /\ (j > Len(lines) \/ starts_block(lines[j]) \/ ~starts_block(lines[j]))
    \/ pc = "clubbed" /\ (pending = <<>> \/ pending # <<>>)

EmittedInOrder ==
    /\ IsPrefix(Idents(rows), ExpectedIdents(lines))
    /\ pc = "parsed" => Idents(rows) = ExpectedIdents(lines)
    /\ pc = "parsed" \/ CanStepParse
    /\ Rank[1] >= 0 /\ Rank[3] >= 0

\* C7: the scan ends (every step takes it nearer its end in a well-founded
\* order, and it stops only once it has returned), and what it returns is, block
\* after block in the order of their start lines, the block's own record
\* followed by its clubbed records in the order of their markers in the block's
\* text; a line is in one block at most, lines before the first start line give
\* no record, and at no moment is a clubbed record emitted before its own
\* block's record or after the next block's.
C7_EmissionOrder ==
    /\ []EmittedInOrder
    /\ [][RankLess(Rank', Rank)]_vars

C7_Witness ==
    /\ pc = "parsed"
    /\ lines = << <<"1","0","2"," ","O","W","P"," ","2","/","2","0","2","3"," ","F","o","o"," ","v","s"," ","B","a","r">>, <<"w","i","t","h"," ","6","/","2","0","2","3">>, <<"1","0","3"," ","W","P","(","C",")"," ","3","/","2","0","2","3">> >>
    /\ Idents(rows) = << << <<"1","0","2">>, <<"O","W","P">>, <<"0","2","/","2","3">>, FALSE >>,
                         << <<"1","0","2">>, <<"O","W","P">>, <<"0","6","/","2","3">>, TRUE >>,
                         << <<"1","0","3">>, <<"W","P","C">>, <<"0","3","/","2","3">>, FALSE >> >>

\* the rows of the x-th block: from its own record up to the next block's
OwnRows(rs) == Sorted({n \in 1..Len(rs) : ~IsClubbed(rs[n])})
ClubbedRows(rs, x) ==
    LET own == OwnRows(rs)
        to  == IF x < Len(own) THEN own[x + 1] - 1 ELSE Len(rs)
    IN  SubSeq(rs, own[x] + 1, to)

\* the lines that name counsel
CounselLines == { <<"A","d","v","."," ","X","Y","Z"," ","f","o","r"," ","p","e","t","i","t","i","o","n","e","r">>, <<"A","d","v",".","K","h","a","n"," ","f","o","r"," ","r","e","s","p","o","n","d","e","n","t">> }

\* C3: from "101 WPC 1/2023 Ram vs State", "Adv. XYZ for petitioner",
\* "102 OWP 2/2023 Foo vs Bar" comes exactly one record with serial number 101,
\* whose title is "Ram vs State"; and no line that names counsel is ever made a
\* title fragment.
C3_CounselLineExcluded ==
    /\ \A n \in 1..Len(title_parts) : title_parts[n] \notin CounselLines
    /\ (/\ pc = "parsed"
        /\ lines = << <<"1","0","1"," ","W","P","C"," ","1","/","2","0","2","3"," ","R","a","m"," ","v","s"," ","S","t","a","t","e">>, <<"A","d","v","."," ","X","Y","Z"," ","f","o","r"," ","p","e","t","i","t","i","o","n","e","r">>,
                      <<"1","0","2"," ","O","W","P"," ","2","/","2","0","2","3"," ","F","o","o"," ","v","s"," ","B","a","r">> >>)
          => LET r == SelectSeq(rows, LAMBDA x : x.sno = <<"1","0","1">>)
             IN  Len(r) = 1 /\ r[1].title = <<"R","a","m"," ","v","s"," ","S","t","a","t","e">>

\* C6: a block whose text holds a clubbed marker followed by an optional case
\* type and a case number/year gives one more record for each such occurrence,
\* with the serial number of the block's own record, tagged "Clubbed inline",
\* with the occurrence's number normalised and its type normalised, or the type
\* of the block's own record when it has none; a block with the line
\* "c/w WPC 5/2023 Sham vs State" gives a record of type WPC and number 05/23.
C6_ClubbedPerOccurrence ==
    pc = "parsed" =>
        \A x \in 1..Cardinality(Starts(lines)) :
            LET n    == Sorted(Starts(lines))[x]
                text == BlockText(lines, n)
                occ  == Sorted(Occurrences(text))
                own  == rows[OwnRows(rows)[x]]
                cl   == ClubbedRows(rows, x)
            IN  /\ Len(cl) = Len(occ)
                /\ \A y \in 1..Len(cl) :
                      LET mm == cw_inline_at(text, occ[y])
                      IN  /\ cl[y].sno = own.sno
                          /\ cl[y].src = "Clubbed inline"
                          /\ cl[y].cno = norm_year(mm.cno)
                          /\ cl[y].ctype = IF mm.typed THEN norm_case_type(mm.ctype)
                                           ELSE own.ctype
                /\ (\E m \in (n + 1)..(BlockEnd(lines, n) - 1) :
                        lines[m] = <<"c","/","w"," ","W","P","C"," ","5","/","2","0","2","3"," ","S","h","a","m"," ","v","s"," ","S","t","a","t","e">>)
                      => \E y \in 1..Len(cl) :
                            cl[y].ctype = <<"W","P","C">> /\ cl[y].cno = <<"0","5","/","2","3">>

\* the title fragments of the block that starts at line n when at most lim
\* fragments are taken from the lines that follow it
Qualifies(ln) == ~cleanse_noise(ln) /\ is_party_like(ln)
TitleOf(ls, n, lim) ==
    LET tail == strip(StartTable[ls[n]].rest)
        q    == Sorted({m \in (n + 1)..(BlockEnd(ls, n) - 1) : Qualifies(ls[m])})
        take == IF Len(q) < lim THEN Len(q) ELSE lim
    IN  collapse_ws(strip(join(
            (IF tail # <<>> THEN <<tail>> ELSE <<>>)
                \o [y \in 1..take |-> strip(ls[q[y]])])))
HasTail(ls, n) == strip(StartTable[ls[n]].rest) # <<>>

\* C8, as stated: with or without text after the case number on its start
\* line, a block's title is that text, if any, then the first lines after it, up
\* to 2 of them, that are not noise and are party-like, whitespace collapsed.
C8_AsStated ==
    pc = "parsed" =>
        \A x \in 1..Cardinality(Starts(lines)) :
            rows[OwnRows(rows)[x]].title = TitleOf(lines, Sorted(Starts(lines))[x], 2)

\* C8, amended: a block's title is the text after the case number on its start
\* line, if any, then the first lines after it that are not noise and are
\* party-like, whitespace collapsed, the title having 2 fragments at most in
\* all: 1 such line at most when the start line has text after the number, 2
\* when it has none.
C8_TitleAssembly ==
    pc = "parsed" =>
        \A x \in 1..Cardinality(Starts(lines)) :
            LET n == Sorted(Starts(lines))[x]
            IN  rows[OwnRows(rows)[x]].title =
                    TitleOf(lines, n, IF HasTail(lines, n) THEN 1 ELSE 2)

C8_Witness ==
    /\ pc = "parsed"
    /\ lines = << <<"1","0","1"," ","W","P","C"," ","1","/","2","0","2","3"," ","R","a","m"," ","v","s"," ","S","t","a","t","e">>, <<"S","h","a","m"," ","L","a","l">>, <<"S","h","a","m"," ","L","a","l">> >>
    /\ Len(rows) = 1
    /\ rows[1].title = <<"R","a","m"," ","v","s"," ","S","t","a","t","e"," ","S","h","a","m"," ","L","a","l">>

-----------------------------------------------------------------------------
(* Claims about index_master and match_engine.                             *)

\* the master rows read so far that have a key, or a number, in master order
RowsWithKey(key) ==
    SelectSeq(SubSeq(master, 1, k),
              LAMBDA r : <<r.case_type_norm, r.case_no_norm>> = key)
RowsWithNo(no) == SelectSeq(SubSeq(master, 1, k), LAMBDA r : r.case_no_norm = no)

Indexing == pc \in {"index", "match", "matched"}

ExactMapKeepsFirst ==
    \A n \in 1..k :
        LET key == <<master[n].case_type_norm, master[n].case_no_norm>>
        IN  key \in DOMAIN by_ct_cno /\ by_ct_cno[key] = RowsWithKey(key)[1]

\* C10, as stated: after any rows have been indexed, the exact map holds, for
\* every key of those rows, the first row with that key, and the secondary map
\* holds, for every case number of those rows, all the rows with that number in
\* their order, none missing, none twice.
C10_AsStated ==
    Indexing =>
        /\ ExactMapKeepsFirst
        /\ \A n \in 1..k :
              LET no == master[n].case_no_norm
              IN  no \in DOMAIN by_cno /\ by_cno[no] = RowsWithNo(no)

\* C10, amended: after any rows have been indexed, the exact map holds, for
\* every key of those rows, the first row with that key, and the secondary map
\* holds, for every case number of those rows that is not empty, all the rows
\* with that number in their order, none missing, none twice; rows with an empty
\* case number are in the exact map only.
C10_IndexMaps ==
    Indexing =>
        /\ ExactMapKeepsFirst
        /\ \A n \in 1..k :
              LET no == master[n].case_no_norm
              IN  IF no # <<>>
                  THEN no \in DOMAIN by_cno /\ by_cno[no] = RowsWithNo(no)
                  ELSE no \notin DOMAIN by_cno
        /\ DOMAIN by_ct_cno =
              {<<master[n].case_type_norm, master[n].case_no_norm>> : n \in 1..k}
        /\ DOMAIN by_cno = {master[n].case_no_norm : n \in 1..k} \ {<<>>}

C10_Witness ==
    /\ pc = "match"
    /\ Len(master) = 3
    /\ master[1].case_no_norm = <<>>
    /\ master[2].title = <<"S","t","a","t","e"," ","v","s"," ","R","a","m">>
    /\ master[3].cno = <<"0","1","/","2","3">>
    /\ by_ct_cno[<< <<"O","W","P">>, <<"0","1","/","2","3">> >>] = master[2]
    /\ by_cno[ <<"0","1","/","2","3">> ] = <<master[2], master[3]>>

\* the query and the candidates of the row just matched
Answered   == pc = "matched"
InExactMap == <<row.ctype, row.cno>> \in DOMAIN by_ct_cno
Cands      == IF row.cno \in DOMAIN by_cno THEN by_cno[row.cno] ELSE <<>>
QueryTokens == split(clean_title_for_match(row.title))
CandTokens(n) == split(Cands[n].title_clean)
SharesFirst(n) ==
    QueryTokens # <<>> /\ CandTokens(n) # <<>> /\ CandTokens(n)[1] = QueryTokens[1]
Score(n) == Cardinality(ToSet(QueryTokens) \cap ToSet(CandTokens(n)))
FirstSharers == {n \in 1..Len(Cands) : SharesFirst(n)}
BestScore == SetMax({Score(n) : n \in 1..Len(Cands)})
Returns(rec, chk) ==
    /\ matched.fno = rec.fno
    /\ matched.chk = chk
    /\ matched.verb = rec.fno \o <<" ">> \o rec.ctype \o <<" ">> \o fstr(rec.cno)
                          \o <<" ">> \o rec.title

\* C1: the tiers are tried in order.  A row whose (type, number) is a key of the
\* exact map gets that entry, "Exact (type+no)", whatever titles the rows with
\* its number have; a row that has no such key, when rows with its number have
\* the first token of its cleaned title as theirs, gets the earliest of them,
\* "Cross-type first-token match", whatever the overlap of the others.
C1_TierOrder ==
    Answered =>
        /\ InExactMap =>
              Returns(by_ct_cno[<<row.ctype, row.cno>>], "Exact (type+no)")
        /\ (~InExactMap /\ FirstSharers # {}) =>
              Returns(Cands[SetMin(FirstSharers)], "Cross-type first-token match")

\* a later row shares the first token; an earlier one overlaps more
C1_Witness ==
    /\ Answered
    /\ ~InExactMap
    /\ Len(Cands) = 2
    /\ FirstSharers = {2}
    /\ Score(1) > Score(2)
    /\ matched.fno = Cands[2].fno
    /\ matched.chk = "Cross-type first-token match"

NoTierHits == FirstSharers = {} /\ \A n \in 1..Len(Cands) : Score(n) = 0

\* C2, as stated: for a row with no entry in the exact map, whatever its title,
\* the check is "Not found" exactly when no row has its case number, and "No
\* overlap (type mismatch)" when rows have it and neither cross-type tier gives a
\* result; in both cases file number and summary are empty.
C2_AsStated ==
    (Answered /\ ~InExactMap) =>
        /\ matched.chk = "Not found" <=> Cands = <<>>
        /\ (Cands # <<>> /\ NoTierHits) => matched.chk = "No overlap (type mismatch)"
        /\ matched.chk \in {"Not found", "No overlap (type mismatch)"}
              => matched.fno = <<>> /\ matched.verb = <<>>

\* C2, amended: for a row with no entry in the exact map, the check is "Not
\* found" exactly when no row has its case number or its title is empty, and "No
\* overlap (type mismatch)" when rows have its number, its title is not empty and
\* neither cross-type tier gives a result; in both cases file number and summary
\* are empty.
C2_Unmatched ==
    (Answered /\ ~InExactMap) =>
        /\ matched.chk = "Not found" <=> (Cands = <<>> \/ row.title = <<>>)
        /\ (Cands # <<>> /\ row.title # <<>> /\ NoTierHits)
              => matched.chk = "No overlap (type mismatch)"
        /\ matched.chk \in {"Not found", "No overlap (type mismatch)"}
              => matched.fno = <<>> /\ matched.verb = <<>>

C2_Witness ==
    /\ Answered
    /\ ~InExactMap
    /\ Cands # <<>>
    /\ row.title = <<>>
    /\ matched = [fno |-> <<>>, verb |-> <<>>, chk |-> "Not found"]

\* C9: for a row with a title, no entry in the exact map, rows with its number
\* and none of them sharing its first token, the row returned is the one whose
\* title tokens overlap its own most, the earliest of those that do, "Cross-type
\* title overlap", if that overlap is at least 1; if not, the check is "No
\* overlap (type mismatch)" and the file number empty.
C9_TitleOverlap ==
    (Answered /\ row.title # <<>> /\ ~InExactMap /\ Cands # <<>> /\ FirstSharers = {}) =>
        IF BestScore >= 1
        THEN Returns(Cands[SetMin({n \in 1..Len(Cands) : Score(n) = BestScore})],
                     "Cross-type title overlap")
        ELSE matched.chk = "No overlap (type mismatch)" /\ matched.fno = <<>>

\* two rows tie for the best overlap and the earlier is returned
C9_Witness ==
    /\ Answered
    /\ ~InExactMap
    /\ FirstSharers = {}
    /\ Len(Cands) = 3
    /\ Score(1) < Score(2) /\ Score(2) = Score(3)
    /\ matched.fno = Cands[2].fno
    /\ matched.chk = "Cross-type title overlap"

=============================================================================
